---- MODULE Spec2Model ----
(***************************************************************************)
(* Model of src/src/tlsconfig.rs: building a TlsAcceptor from PEM          *)
(* certificate and key data, either in memory or in files.                 *)
(*                                                                         *)
(* A PEM stream is modelled as a sequence of blocks.  A block is either a  *)
(* run of text outside any BEGIN/END section, or one BEGIN/END section     *)
(* with a label and a body; b64 tells whether the body is valid base64,    *)
(* and der is the identity of the DER blob it then decodes to.             *)
(***************************************************************************)
EXTENDS Integers, Sequences, FiniteSets, TLC

\* ------------------------------------------------------------------ bounds
MaxCertBlocks == 2
MaxKeyBlocks == 2

\* ------------------------------------------------------------- PEM streams
Blk(l, d) == [label |-> l, der |-> d, b64 |-> TRUE]
BadBlk(l) == [label |-> l, der |-> 1, b64 |-> FALSE]
Text == [label |-> "TEXT", der |-> 1, b64 |-> FALSE]

CertStreamBlocks ==
    { Blk("CERTIFICATE", 1), Blk("CERTIFICATE", 2), Blk("PRIVATE KEY", 1),
      BadBlk("CERTIFICATE"), Text }

KeyStreamBlocks ==
    { Blk("RSA PRIVATE KEY", 1), Blk("PRIVATE KEY", 2), Blk("EC PRIVATE KEY", 1),
      Blk("CERTIFICATE", 1), Blk("EC PARAMETERS", 1),
      BadBlk("RSA PRIVATE KEY"), Text }

SeqsUpTo(S, n) == UNION { [1..k -> S] : k \in 0..n }

\* Option values: None is the empty sequence, Some(x) the one-element one.
None == << >>
Some(x) == << x >>

\* -------------------------------------------------- rustls_pemfile (external)
\* The section labels rustls_pemfile turns into an Item, and the Item kind.
ItemKind(label) ==
    CASE label = "CERTIFICATE"     -> "X509Certificate"
      [] label = "RSA PRIVATE KEY" -> "RSAKey"
      [] label = "PRIVATE KEY"     -> "PKCS8Key"
      [] label = "EC PRIVATE KEY"  -> "ECKey"
      [] OTHER                     -> "Unknown"

\* rustls_pemfile::read_one on stream s whose first i blocks are consumed:
\* text outside sections and sections with an unknown label are skipped, a
\* section whose body is not base64 is an io::Error, the first section with a
\* known label is returned, and the end of the stream is Ok(None).
RECURSIVE read_one(_, _)
read_one(s, i) ==
    IF i >= Len(s)
    THEN [status |-> "None", item |-> None, pos |-> Len(s)]
    ELSE LET b == s[i + 1] IN
         IF b.label = "TEXT" THEN read_one(s, i + 1)
         ELSE IF ~b.b64
              THEN [status |-> "Err", item |-> None, pos |-> i + 1]
         ELSE IF ItemKind(b.label) # "Unknown"
              THEN [status |-> "Some",
                    item |-> Some([kind |-> ItemKind(b.label), der |-> b.der]),
                    pos |-> i + 1]
         ELSE read_one(s, i + 1)

\* rustls_pemfile::certs: read_one until the end of the stream, keeping the
\* X509Certificate items in the order read; an error of read_one ends it.
RECURSIVE certs_from(_, _, _)
certs_from(s, i, acc) ==
    LET r == read_one(s, i) IN
    CASE r.status = "None" -> [ok |-> TRUE, ders |-> acc, pos |-> r.pos]
      [] r.status = "Err"  -> [ok |-> FALSE, ders |-> << >>, pos |-> r.pos]
      [] OTHER ->
           certs_from(s, r.pos,
                      IF r.item[1].kind = "X509Certificate"
                      THEN Append(acc, r.item[1].der) ELSE acc)

pemfile_certs(s) == certs_from(s, 0, << >>)

\* ------------------------------------------------------ rustls (external)
\* rustls ServerConfig::builder()...with_single_cert(certs, key): the set of
\* verdicts the engine may return.  A key that matches the leaf certificate
\* is accepted; for an empty chain or a key that does not match the leaf the
\* verdict is the engine's own (the adapter does not look at it).
KeyMatchesLeaf(cs, k) == cs # << >> /\ cs[1][1] = k[1]

with_single_cert(cs, k) ==
    IF KeyMatchesLeaf(cs, k) THEN {TRUE} ELSE BOOLEAN

\* ---------------------------------------------------------- tlsconfig.rs
HttpProtocol == {"Http1", "Http2", "Both"}

\* rustls::Certificate(der) and rustls::PrivateKey(der): tuple structs.
Certificate(d) == << d >>
PrivateKey(d) == << d >>

\* Faulty variant: the list collected back to front.
CollectCertsReversed(ders) ==
    [i \in 1..Len(ders) |-> Certificate(ders[Len(ders) + 1 - i])]

\* .into_iter().map(rustls::Certificate).collect()
CollectCerts(ders) == [i \in 1..Len(ders) |-> Certificate(ders[i])]

\* Faulty variant: any item taken as the key.
KeyOfItemAnyBlock(item) == Some(PrivateKey(item.der))

\* match key { ECKey | RSAKey | PKCS8Key => PrivateKey(data), _ => Err }
KeyOfItem(item) ==
    IF item.kind \in {"ECKey", "RSAKey", "PKCS8Key"}
    THEN Some(PrivateKey(item.der))
    ELSE None

\* Faulty variant: Both preferring HTTP/1.1 over HTTP/2.
AlpnForWrongOrder(p) ==
    CASE p = "Http1" -> << "http/1.1", "http/1.0" >>
      [] p = "Http2" -> << "h2" >>
      [] p = "Both"  -> << "http/1.1", "h2", "http/1.0" >>

\* cfg.alpn_protocols = match protocol { ... }
AlpnFor(p) ==
    CASE p = "Http1" -> << "http/1.1", "http/1.0" >>
      [] p = "Http2" -> << "h2" >>
      [] p = "Both"  -> << "h2", "http/1.1", "http/1.0" >>

VARIABLES
    certData,      \* content of the certificate stream
    keyData,       \* content of the key stream
    protocol,      \* the HttpProtocol argument
    entry,         \* "none" | "pem" | "files": the public function called
    pc,            \* position of the call
    handles,       \* file handles currently open
    certPos,       \* blocks of the certificate stream consumed
    keyPos,        \* blocks of the key stream consumed
    certs,         \* local `certs`
    keyItem,       \* Option: the Item read from the key stream
    key,           \* Option: local `key` (rustls::PrivateKey)
    engineCalls,   \* arguments and verdict of each with_single_cert call
    cfg,           \* Option: local `cfg`
    result,        \* what the call returned
    steps          \* history: the fallible steps the call has run, in order

vars == << certData, keyData, protocol, entry, pc, handles, certPos, keyPos,
           certs, keyItem, key, engineCalls, cfg, result, steps >>

inputs == << certData, keyData, protocol >>

Pending == [kind |-> "Pending", acceptor |-> None, error |-> ""]
Ok(a) == [kind |-> "Ok", acceptor |-> Some(a), error |-> ""]
Err(e) == [kind |-> "Err", acceptor |-> None, error |-> e]

\* The failures of the call, by the place that raises them.
IoError == Err("IoError")
PemParseError == Err("PemParseError")
\* Faulty variant: the message of line 71 used on line 66.
NoKeyDataErrorAsUnsupported == Err("UnsupportedKeyKindError")

NoKeyDataError == Err("NoKeyDataError")
UnsupportedKeyKindError == Err("UnsupportedKeyKindError")
TlsConfigError == Err("TlsConfigError")

Init ==
    /\ certData \in SeqsUpTo(CertStreamBlocks, MaxCertBlocks)
    /\ keyData \in SeqsUpTo(KeyStreamBlocks, MaxKeyBlocks)
    /\ protocol \in HttpProtocol
    /\ entry = "none"
    /\ pc = "idle"
    /\ handles = {}
    /\ certPos = 0
    /\ keyPos = 0
    /\ certs = << >>
    /\ keyItem = None
    /\ key = None
    /\ engineCalls = << >>
    /\ cfg = None
    /\ result = Pending
    /\ steps = << >>

\* Faulty variant: the files stay open when the call leaves.
ReturnLeakingFiles(r) ==
    /\ result' = r
    /\ pc' = "returned"
    /\ handles' = handles
    /\ cfg' = None

\* Leaving the call: the locals go out of scope, so the readers and the files
\* they own are dropped, and so is a configuration that was not returned.
Return(r) ==
    /\ result' = r
    /\ pc' = "returned"
    /\ handles' = {}
    /\ cfg' = None

\* get_tlsacceptor_from_pem_data: both strings become in-memory readers.
FromPemData ==
    /\ pc = "idle"
    /\ entry' = "pem"
    /\ pc' = "readers"
    /\ UNCHANGED << inputs, handles, certPos, keyPos, certs, keyItem, key,
                    engineCalls, cfg, result, steps >>

\* Faulty variant: a failed open of the certificate file is not returned.
OpenCertFileDeferringError ==
    /\ pc = "idle"
    /\ entry' = "files"
    /\ \E opened \in BOOLEAN :
         /\ handles' = IF opened THEN handles \cup {"cert"} ELSE handles
         /\ pc' = "cert_open"
         /\ steps' = Append(steps, IF opened THEN "open_cert" ELSE "open_cert_failed")
         /\ UNCHANGED << cfg, result >>
    /\ UNCHANGED << inputs, certPos, keyPos, certs, keyItem, key, engineCalls >>

\* get_tlsacceptor_from_files, File::open(cert_path)?
OpenCertFile ==
    /\ pc = "idle"
    /\ entry' = "files"
    /\ \E opened \in BOOLEAN :
         IF opened
         THEN /\ handles' = handles \cup {"cert"}
              /\ pc' = "cert_open"
              /\ steps' = Append(steps, "open_cert")
              /\ UNCHANGED << cfg, result >>
         ELSE /\ Return(IoError)
              /\ steps' = Append(steps, "open_cert_failed")
    /\ UNCHANGED << inputs, certPos, keyPos, certs, keyItem, key, engineCalls >>

\* get_tlsacceptor_from_files, File::open(key_path)? and the two BufReaders
OpenKeyFile ==
    /\ pc = "cert_open"
    /\ \E opened \in BOOLEAN :
         IF opened
         THEN /\ handles' = handles \cup {"key"}
              /\ pc' = "readers"
              /\ steps' = Append(steps, "open_key")
              /\ UNCHANGED << cfg, result >>
         ELSE /\ Return(IoError)
              /\ steps' = Append(steps, "open_key_failed")
    /\ UNCHANGED << inputs, entry, certPos, keyPos, certs, keyItem, key,
                    engineCalls >>

\* get_tlsacceptor_from_readers, certs: r is what rustls_pemfile::certs gave
DecodeCertsStep(r) ==
    /\ pc = "readers"
    /\ steps' = Append(steps, "certs")
    /\ certPos' = r.pos
    /\ IF r.ok
       THEN /\ certs' = CollectCerts(r.ders)
            /\ pc' = "certs_done"
            /\ UNCHANGED << handles, cfg, result >>
       ELSE /\ Return(PemParseError)
            /\ UNCHANGED certs
    /\ UNCHANGED << inputs, entry, keyPos, keyItem, key, engineCalls >>

\* Faulty variant: an empty certificate list is a parse failure.
DecodeCertsRejectingEmpty ==
    LET r == pemfile_certs(certData)
    IN  DecodeCertsStep([r EXCEPT !.ok = r.ok /\ r.ders # << >>])

\* Faulty variant: a parse failure of the certificate stream is swallowed.
DecodeCertsIgnoringError ==
    LET r == pemfile_certs(certData)
    IN  DecodeCertsStep([r EXCEPT !.ok = TRUE])

DecodeCerts == DecodeCertsStep(pemfile_certs(certData))

\* get_tlsacceptor_from_readers, read_one(key_reader)?.ok_or(..)?: r is what
\* rustls_pemfile::read_one gave
ReadKeyStep(r) ==
    /\ pc = "certs_done"
    /\ steps' = Append(steps, "read_one")
    /\ keyPos' = r.pos
    /\ CASE r.status = "Err" ->
              /\ Return(PemParseError)
              /\ UNCHANGED keyItem
         [] r.status = "None" ->
              /\ Return(NoKeyDataError)
              /\ UNCHANGED keyItem
         [] OTHER ->
              /\ keyItem' = r.item
              /\ pc' = "key_read"
              /\ UNCHANGED << handles, cfg, result >>
    /\ UNCHANGED << inputs, entry, certPos, certs, key, engineCalls >>

\* Faulty variant: read_one called again until an item is not a certificate.
RECURSIVE read_until_key(_, _)
read_until_key(s, i) ==
    LET r == read_one(s, i) IN
    IF r.status = "Some" /\ r.item[1].kind = "X509Certificate"
    THEN read_until_key(s, r.pos)
    ELSE r

ReadKeyScanningOn == ReadKeyStep(read_until_key(keyData, keyPos))

ReadKey == ReadKeyStep(read_one(keyData, keyPos))

\* get_tlsacceptor_from_readers, match key
MatchKey ==
    /\ pc = "key_read"
    /\ steps' = Append(steps, "match_key")
    /\ LET k == KeyOfItem(keyItem[1]) IN
         IF k # None
         THEN /\ key' = k
              /\ pc' = "key_ok"
              /\ UNCHANGED << handles, cfg, result >>
         ELSE /\ Return(UnsupportedKeyKindError)
              /\ UNCHANGED key
    /\ UNCHANGED << inputs, entry, certPos, keyPos, certs, keyItem, engineCalls >>

\* Faulty variant: the engine's rejection is not returned.
BuildConfigIgnoringVerdict ==
    /\ pc = "key_ok"
    /\ steps' = Append(steps, "with_single_cert")
    /\ \E accepted \in with_single_cert(certs, key[1]) :
         /\ engineCalls' = Append(engineCalls,
                [certs |-> certs, key |-> key[1], accepted |-> accepted])
         /\ cfg' = Some([certs |-> certs, key |-> key[1],
                         alpn_protocols |-> << >>])
         /\ pc' = "cfg_built"
         /\ UNCHANGED << handles, result >>
    /\ UNCHANGED << inputs, entry, certPos, keyPos, certs, keyItem, key >>

\* get_tlsacceptor_from_readers, with_single_cert(certs, key)?
BuildConfig ==
    /\ pc = "key_ok"
    /\ steps' = Append(steps, "with_single_cert")
    /\ \E accepted \in with_single_cert(certs, key[1]) :
         /\ engineCalls' = Append(engineCalls,
                [certs |-> certs, key |-> key[1], accepted |-> accepted])
         /\ IF accepted
            THEN /\ cfg' = Some([certs |-> certs, key |-> key[1],
                                 alpn_protocols |-> << >>])
                 /\ pc' = "cfg_built"
                 /\ UNCHANGED << handles, result >>
            ELSE Return(TlsConfigError)
    /\ UNCHANGED << inputs, entry, certPos, keyPos, certs, keyItem, key >>

\* get_tlsacceptor_from_readers, alpn_protocols and TlsAcceptor::from
Finish ==
    /\ pc = "cfg_built"
    /\ steps' = Append(steps, "alpn")
    /\ LET done == [cfg[1] EXCEPT !.alpn_protocols = AlpnFor(protocol)] IN
         Return(Ok([config |-> done]))
    /\ UNCHANGED << inputs, entry, certPos, keyPos, certs, keyItem, key,
                    engineCalls >>

Next ==
    \/ FromPemData
    \/ OpenCertFile
    \/ OpenKeyFile
    \/ DecodeCerts
    \/ ReadKey
    \/ MatchKey
    \/ BuildConfig
    \/ Finish

Spec == Init /\ [][Next]_vars

\* ------------------------------------------------------------- properties
KeyKinds == {"ECKey", "RSAKey", "PKCS8Key"}
KeyLabels == {"EC PRIVATE KEY", "RSA PRIVATE KEY", "PRIVATE KEY"}

Ran(step) == \E i \in 1..Len(steps) : steps[i] = step
Returned == pc = "returned"
\* The reader-based builder was entered by the call.
BuilderEntered == Ran("certs")

\* What the inputs decode to, whatever the call did with them.
CertsIn == pemfile_certs(certData)
FirstKeyItem == read_one(keyData, 0)
KeySupported == FirstKeyItem.status = "Some" /\ FirstKeyItem.item[1].kind \in KeyKinds

\* The CERTIFICATE sections of the certificate stream, read off the input.
IsCertBlock(b) == b.label = "CERTIFICATE"
CertBlocksInOrder ==
    LET bs == SelectSeq(certData, IsCertBlock)
    IN  [i \in 1..Len(bs) |-> << bs[i].der >>]

\* A valid certificate stream whose leaf is the certificate of the key that
\* the key stream holds.
ValidMatchingPair ==
    /\ CertsIn.ok
    /\ CertsIn.ders # << >>
    /\ KeySupported
    /\ FirstKeyItem.item[1].der = CertsIn.ders[1]

\* C1: for every valid certificate stream and matching key, and every
\* selector, the call that reaches the reader-based builder returns an
\* acceptor whose ALPN list is, in order, http/1.1, http/1.0 for Http1,
\* h2 for Http2, and h2, http/1.1, http/1.0 for Both.
C1_AlpnMatchesTable ==
    (Returned /\ BuilderEntered /\ ValidMatchingPair) =>
        /\ result.kind = "Ok"
        /\ result.acceptor # None
        /\ result.acceptor[1].config.alpn_protocols =
             IF protocol = "Http1" THEN << "http/1.1", "http/1.0" >>
             ELSE IF protocol = "Http2" THEN << "h2" >>
             ELSE << "h2", "http/1.1", "http/1.0" >>

C1_Witness ==
    /\ Returned /\ BuilderEntered /\ ValidMatchingPair
    /\ protocol = "Both"
    /\ result.kind = "Ok"
    /\ Len(result.acceptor[1].config.alpn_protocols) = 3

\* C2: a returned call has exactly one of two outcomes, an acceptor or an
\* error without acceptor.  The acceptor is returned if and only if the
\* certificate stream decoded, the first item of the key stream is an EC, RSA
\* or PKCS8 key, and the engine accepted the pair; the returned acceptor
\* holds the certificates, the key and the ALPN list, and no configuration
\* outlives a failed call.
C2_AcceptorIffAllStepsSucceed ==
    Returned =>
        /\ result.kind \in {"Ok", "Err"}
        /\ (result.kind = "Ok") <=>
             /\ BuilderEntered
             /\ CertsIn.ok
             /\ KeySupported
             /\ Len(engineCalls) = 1
             /\ engineCalls[1].accepted
        /\ (result.kind = "Ok") =>
             /\ result.acceptor # None
             /\ result.error = ""
             /\ result.acceptor[1].config.certs = certs
             /\ result.acceptor[1].config.key = PrivateKey(FirstKeyItem.item[1].der)
             /\ result.acceptor[1].config.alpn_protocols # << >>
        /\ (result.kind = "Err") =>
             /\ result.acceptor = None
             /\ result.error # ""
             /\ cfg = None

C2_Witness ==
    /\ Returned
    /\ result.kind = "Err"
    /\ result.error = "UnsupportedKeyKindError"
    /\ CertsIn.ok
    /\ CertsIn.ders # << >>

\* C3: when the certificate stream decodes and the key stream is empty or
\* holds only text that is not PEM, the builder fails with NoKeyDataError,
\* for every selector.
NonPemKeyInput == \A i \in 1..Len(keyData) : keyData[i].label = "TEXT"

C3_NoKeyData ==
    (Returned /\ BuilderEntered /\ CertsIn.ok /\ NonPemKeyInput) =>
        result = Err("NoKeyDataError")

C3_Witness ==
    /\ Returned /\ BuilderEntered /\ CertsIn.ok
    /\ keyData # << >> /\ NonPemKeyInput
    /\ protocol = "Http2"
    /\ result.error = "NoKeyDataError"

\* C4: only the first block of the key stream that decodes into an item is
\* considered.  If it is not an EC, RSA or PKCS8 key the builder fails with
\* UnsupportedKeyKindError, also when a private key follows it; the stream is
\* never read past that block and no later block becomes the key.
KeyFollowsLater ==
    \E i \in 1..Len(keyData) :
        /\ i > FirstKeyItem.pos
        /\ keyData[i].label \in KeyLabels
        /\ keyData[i].b64

C4_FirstBlockOnly ==
    (BuilderEntered /\ CertsIn.ok /\ FirstKeyItem.status = "Some") =>
        /\ keyPos <= FirstKeyItem.pos
        /\ keyItem # None => keyItem = FirstKeyItem.item
        /\ key # None => key[1] = PrivateKey(FirstKeyItem.item[1].der)
        /\ (Returned /\ ~KeySupported) =>
             /\ result = Err("UnsupportedKeyKindError")
             /\ key = None
             /\ engineCalls = << >>

C4_Witness ==
    /\ Returned /\ BuilderEntered /\ CertsIn.ok
    /\ FirstKeyItem.status = "Some" /\ ~KeySupported
    /\ KeyFollowsLater
    /\ result.error = "UnsupportedKeyKindError"
    /\ keyPos < Len(keyData)

\* C5: in the file variant the certificate file is opened first, then the
\* key file, and the reader-based builder is entered only with both open.
\* When either open fails the call fails with IoError, nothing of either
\* stream has been decoded and the engine has not been called, whatever the
\* files hold.
OpenFailed == Ran("open_cert_failed") \/ Ran("open_key_failed")

C5_OpenBeforeParsing ==
    /\ (entry = "files" /\ Ran("open_key")) => steps[1] = "open_cert"
    /\ (entry = "files" /\ Ran("open_key_failed")) => steps[1] = "open_cert"
    /\ (entry = "files" /\ BuilderEntered) =>
         /\ Len(steps) >= 3
         /\ steps[1] = "open_cert" /\ steps[2] = "open_key" /\ steps[3] = "certs"
    /\ (entry = "files" /\ pc \notin {"idle", "cert_open", "returned"}) =>
         handles = {"cert", "key"}
    /\ (entry = "files" /\ (certPos > 0 \/ keyPos > 0 \/ engineCalls # << >>)) =>
         /\ ~OpenFailed
         /\ Ran("open_cert") /\ Ran("open_key")
    /\ OpenFailed =>
         /\ Returned
         /\ result = Err("IoError")
         /\ ~BuilderEntered
         /\ certPos = 0 /\ keyPos = 0
         /\ certs = << >> /\ keyItem = None /\ key = None
         /\ engineCalls = << >>
    /\ (Returned /\ result.error = "IoError") => (entry = "files" /\ OpenFailed)

C5_Witness ==
    /\ Returned
    /\ Ran("open_cert_failed")
    /\ result = Err("IoError")
    /\ ValidMatchingPair

\* C6 as stated: a supported key that does not match the leaf certificate
\* makes the call fail with TlsConfigError.
KeyMismatch ==
    /\ CertsIn.ok
    /\ CertsIn.ders # << >>
    /\ KeySupported
    /\ FirstKeyItem.item[1].der # CertsIn.ders[1]

C6_MismatchAlwaysFails ==
    (Returned /\ BuilderEntered /\ KeyMismatch) => result = Err("TlsConfigError")

\* C6 amended: the adapter hands a supported key that does not match the
\* leaf certificate to the engine unchanged and does no check of its own: the
\* call fails with TlsConfigError, without acceptor, exactly when the engine
\* rejects the pair, and returns an acceptor when the engine accepts it.
C6_MismatchFailsIffEngineRejects ==
    (Returned /\ BuilderEntered /\ KeyMismatch) =>
        /\ Len(engineCalls) = 1
        /\ engineCalls[1].certs = CertBlocksInOrder
        /\ engineCalls[1].key = PrivateKey(FirstKeyItem.item[1].der)
        /\ ~engineCalls[1].accepted <=> result = Err("TlsConfigError")
        /\ engineCalls[1].accepted <=> result.kind = "Ok"
        /\ result.kind = "Err" => result.acceptor = None

C6_Witness ==
    /\ Returned /\ BuilderEntered /\ KeyMismatch
    /\ ~engineCalls[1].accepted
    /\ result = Err("TlsConfigError")

\* C7: a certificate stream without any CERTIFICATE block (and without
\* malformed sections) does not fail at certificate decoding: with a key
\* stream whose first item is a supported key the engine is called, with an
\* empty certificate list, and the call fails only if the engine rejects it,
\* and then with TlsConfigError.
ZeroCertBlocks == CertsIn.ok /\ CertsIn.ders = << >>

C8_CertListInInputOrder ==
    /\ \A i \in 1..Len(engineCalls) : engineCalls[i].certs = CertBlocksInOrder
    /\ pc \in {"certs_done", "key_read", "key_ok", "cfg_built"} =>
         certs = CertBlocksInOrder
    /\ cfg # None => cfg[1].certs = CertBlocksInOrder
    /\ result.kind = "Ok" => result.acceptor[1].config.certs = CertBlocksInOrder

C8_Witness ==
    /\ Len(engineCalls) = 1
    /\ Len(engineCalls[1].certs) = 2
    /\ engineCalls[1].certs[1] = engineCalls[1].certs[2]
    /\ Len(certData) = 2

\* C9: in the file variant no file handle is open once the call has
\* returned, on any exit path, and only the call's two files are ever open.
C9_NoHandleAfterReturn ==
    /\ Returned => handles = {}
    /\ handles \subseteq {"cert", "key"}
    /\ entry # "files" => handles = {}

C9_Witness ==
    /\ Returned
    /\ Ran("open_cert")
    /\ Ran("open_key_failed")
    /\ handles = {}

\* C10: the builder runs certificate decoding, key decoding and the engine
\* in this order and the first failing step alone decides the error: a
\* certificate parse failure is returned with the key stream unread, a key
\* failure with the engine not called, TlsConfigError only after both
\* decodings succeeded; the selector has no part in the outcome.
BuilderOrder == << "certs", "read_one", "match_key", "with_single_cert", "alpn" >>
BuilderSteps ==
    SelectSeq(steps, LAMBDA x : x \notin {"open_cert", "open_key"})

ExpectedOutcome ==
    IF ~CertsIn.ok THEN "PemParseError"
    ELSE IF FirstKeyItem.status = "Err" THEN "PemParseError"
    ELSE IF FirstKeyItem.status = "None" THEN "NoKeyDataError"
    ELSE IF ~KeySupported THEN "UnsupportedKeyKindError"
    ELSE IF ~engineCalls[1].accepted THEN "TlsConfigError"
    ELSE ""

C10_FirstFailingStepDecides ==
    BuilderEntered =>
        /\ BuilderSteps = SubSeq(BuilderOrder, 1, Len(BuilderSteps))
        /\ Returned =>
             /\ result.error = ExpectedOutcome
             /\ (result.kind = "Ok") <=> (ExpectedOutcome = "")
        /\ (Returned /\ ~CertsIn.ok) =>
             /\ result = Err("PemParseError")
             /\ keyPos = 0 /\ ~Ran("read_one")
             /\ engineCalls = << >>
        /\ (Returned /\ result.error \in {"NoKeyDataError", "UnsupportedKeyKindError"}) =>
             /\ engineCalls = << >>
             /\ ~Ran("with_single_cert")
        /\ (Returned /\ result.error = "TlsConfigError") =>
             /\ CertsIn.ok /\ KeySupported
             /\ Ran("read_one") /\ Ran("match_key")

C10_Witness ==
    /\ Returned /\ BuilderEntered
    /\ ~CertsIn.ok
    /\ FirstKeyItem.status = "None"
    /\ result = Err("PemParseError")
    /\ keyPos = 0

====
